---- MODULE Spec2Model ----
(***************************************************************************)
(* Model of phenomenon (src/src/index.ts): the Renderer frame loop, the    *)
(* instance registry, the shared-uniform merge and the attribute buffer    *)
(* compilation of Instance.                                                *)
(***************************************************************************)
EXTENDS Integers, Sequences, FiniteSets, TLC

VARIABLES
  started,       \* the Renderer constructor has run
  shouldRender,  \* Renderer.shouldRender
  onRender,      \* Renderer.onRender is configured (settings.onRender)
  raf,           \* number of requestAnimationFrame callbacks not yet run
  uniforms,      \* Renderer.uniforms, in key insertion order
  heap,          \* storage of the uniform value arrays, by reference
  instances,     \* Renderer.instances (a Map), in insertion order
  inst,          \* every Instance object ever constructed, by identity
  glBuffers,     \* WebGL buffer objects ever created
  glPrograms,    \* per constructed instance, the deleteProgram calls on its program
  stack,         \* Renderer.render() activations in flight, innermost last
  call,          \* the operation performed by the last step
  hist           \* the last two run-state calls (toggle, destroy)

vars == <<started, shouldRender, onRender, raf, uniforms, heap, instances,
          inst, glBuffers, glPrograms, stack, call, hist>>

-----------------------------------------------------------------------------
(* Bounds of the model *)

MaxMultiplier == 2
MaxVertices == 2
MaxSize == 4
MaxBuffers == 4
MaxInstances == 2
MaxRaf == 2
MaxValue == 1

-----------------------------------------------------------------------------
(* Values *)

\* Float32Array stores NaN for undefined
NaN == -1

\* a thrown TypeError while computing an element
Thrown == -2

positionMap == <<"x", "y", "z">>

Undefined == [kind |-> "undef"]

Fn(g) == [kind |-> "fn", fn |-> g]

Arr(a) == [kind |-> "arr", arr |-> a]

\* generator functions (replicaIndex, replicaCount) -> tuple used by the model
Generators == {"index", "count"}

Generate(g, j, multiplier) ==
  IF g = "index" THEN <<j, j + 1, j + 2, j + 3>>
  ELSE <<multiplier, multiplier + j, 5, 6>>

\* modifier functions (data, k, l, instance) -> number used by the model
Modifiers == {"vertex", "shift"}

\* data[l] of a JavaScript array: undefined (NaN once stored) past its end
At(data, l) == IF l < Len(data) THEN data[l + 1] ELSE NaN

Modify(f, data, k, l) ==
  IF f = "vertex" THEN 10 * (k + 1) + l
  ELSE IF data.kind = "val" THEN At(data.val, l) + 20 * (k + 1) ELSE NaN

\* vertices[k][positionMap[l]]
Coord(v, l) == IF l < Len(positionMap) THEN v[positionMap[l + 1]] ELSE NaN

\* Array.prototype.indexOf, 0-based, -1 when absent
IndexOf(s, x) ==
  IF \E i \in 1..Len(s) : s[i] = x
  THEN (CHOOSE i \in 1..Len(s) : s[i] = x /\ \A j \in 1..(i - 1) : s[j] # x) - 1
  ELSE -1

\* gl.getAttribLocation(program, name)
AttribNames == <<"aPosition", "aNormal", "aOffset", "aColor">>

GetAttribLocation(name) == IndexOf(AttribNames, name)

-----------------------------------------------------------------------------
(* Instance.prepareAttribute: the compilation loops *)

\* attribute.data && attribute.data(j, multiplier)
DataOf(attribute, j, multiplier) ==
  IF attribute.data.kind = "undef" THEN Undefined
  ELSE IF attribute.data.kind = "fn"
       THEN [kind |-> "val", val |-> Generate(attribute.data.fn, j, multiplier)]
       ELSE [kind |-> "throw"]

\* const { vertices } = geometry, a defined array here
Vertices(I) == I.geometry.vertices.val

\* the value written at one (k, l) of replica j
Element(I, attribute, data, k, l) ==
  IF attribute.name \in DOMAIN I.modifiers
  THEN Modify(I.modifiers[attribute.name], data, k, l)
  ELSE IF attribute.name = "aPosition"
  THEN Coord(Vertices(I)[k + 1], l)
  ELSE IF attribute.name = "aNormal"
  THEN IF I.geometry.normal.kind = "undef" \/ k >= Len(I.geometry.normal.val)
       THEN Thrown
       ELSE Coord(I.geometry.normal.val[k + 1], l)
  ELSE IF data.kind = "val" THEN At(data.val, l) ELSE Thrown

RECURSIVE LoopL(_, _, _, _, _, _, _)
LoopL(I, attribute, data, k, l, offset, st) ==
  IF l >= attribute.size \/ st.thrown THEN [st EXCEPT !.offset = offset]
  ELSE LET e == Element(I, attribute, data, k, l)
       IN IF e = Thrown
          THEN [st EXCEPT !.thrown = TRUE]
          ELSE LoopL(I, attribute, data, k, l + 1, offset + 1,
                     [st EXCEPT !.buf = IF offset \in DOMAIN st.buf
                                        THEN [st.buf EXCEPT ![offset] = e]
                                        ELSE st.buf])

RECURSIVE LoopK(_, _, _, _, _, _)
LoopK(I, attribute, data, k, offset, st) ==
  IF k >= Len(Vertices(I)) \/ st.thrown THEN st
  ELSE LET r == LoopL(I, attribute, data, k, 0, offset, st)
       IN LoopK(I, attribute, data, k + 1, r.offset, r)

\* an offset that leaves the component count out
OffsetPerVertex(j, n, size) == j * n

\* offset = j * vertices.length * attribute.size
OffsetOf(j, n, size) == j * n * size

\* a loop that compiles one replica only
LoopJOnce(I, attribute, j, st) ==
  LET data == DataOf(attribute, j, I.multiplier)
  IN IF data.kind = "throw" THEN [st EXCEPT !.thrown = TRUE]
     ELSE LoopK(I, attribute, data, 0, OffsetOf(j, Len(Vertices(I)), attribute.size),
                [st EXCEPT !.calls = IF data.kind = "val"
                                     THEN Append(@, <<j, I.multiplier>>) ELSE @])

RECURSIVE LoopJ(_, _, _, _)
LoopJ(I, attribute, j, st) ==
  IF j >= I.multiplier \/ st.thrown THEN st
  ELSE LET data == DataOf(attribute, j, I.multiplier)
       IN IF data.kind = "throw"
          THEN [st EXCEPT !.thrown = TRUE]
          ELSE LoopJ(I, attribute, j + 1,
                     LoopK(I, attribute, data, 0,
                           OffsetOf(j, Len(Vertices(I)), attribute.size),
                           [st EXCEPT !.calls = IF data.kind = "val"
                                                THEN Append(@, <<j, I.multiplier>>)
                                                ELSE @]))

\* a buffer sized for one replica
BufferLengthOne(I, attribute) == Len(Vertices(I)) * attribute.size

\* new Float32Array(multiplier * vertices.length * attribute.size)
BufferLength(I, attribute) ==
  I.multiplier * Len(Vertices(I)) * attribute.size

\* the Float32Array built by prepareAttribute, or thrown
attributeBufferData(I, attribute) ==
  LoopJ(I, attribute, 0,
        [buf |-> [i \in 0..(BufferLength(I, attribute) - 1) |-> 0],
         offset |-> 0, thrown |-> FALSE, calls |-> <<>>])

-----------------------------------------------------------------------------
(* Instance: buffers and attributes *)

Hole == [buffer |-> 0, location |-> -1, size |-> 0]

\* a list that grows with every assignment
SetAtEnd(s, i, v) == Append(s, v)

\* array[i] = v for a JavaScript array (0-based i); a negative i sets a
\* property and leaves the elements alone, an i past the end leaves holes
RECURSIVE SetAt(_, _, _)
SetAt(s, i, v) ==
  IF i < 0 THEN s
  ELSE IF i < Len(s) THEN [s EXCEPT ![i + 1] = v]
  ELSE IF i = Len(s) THEN Append(s, v)
  ELSE SetAt(Append(s, Hole), i, v)

Ok(I, B) == [ok |-> TRUE, I |-> I, B |-> B]

Throw(I, B) == [ok |-> FALSE, I |-> I, B |-> B]

\* Instance.prepareBuffer(attribute) on instance I with the WebGL buffers B
prepareBuffer(I, B, attribute) ==
  LET buffer == Len(B) + 1
      location == GetAttribLocation(attribute.name)
  IN Ok([I EXCEPT !.buffers =
            SetAt(@, IndexOf(I.attributeKeys, attribute.name),
                  [buffer |-> buffer, location |-> location, size |-> attribute.size])],
        Append(B, [data |-> attribute.data, deleted |-> 0, owner |-> I.program]))

\* always the first attribute
StoredFirst(I, attribute) == 0

\* the attribute whose data prepareAttribute replaces and uploads
StoredAttribute(I, attribute) == IndexOf(I.attributeKeys, attribute.name)

\* Instance.prepareAttribute(attribute)
prepareAttribute(I, B, attribute) ==
  LET r == attributeBufferData(I, attribute)
      idx == StoredAttribute(I, attribute)
  IN IF I.geometry.vertices.kind = "undef" THEN Throw(I, B)
     ELSE IF r.thrown \/ idx < 0 \/ idx >= Len(I.attributes)
     THEN Throw(I, B)
     ELSE LET I1 == [I EXCEPT !.attributes[idx + 1].data = Arr(r.buf)]
          IN prepareBuffer(I1, B, I1.attributes[idx + 1])

\* the loop of Instance.prepareAttributes, from attribute index i (0-based)
RECURSIVE PrepareLoop(_, _, _)
PrepareLoop(I, B, i) ==
  IF i >= Len(I.attributes) THEN Ok(I, B)
  ELSE LET I1 == [I EXCEPT !.attributeKeys = Append(@, I.attributes[i + 1].name)]
           r == prepareAttribute(I1, B, I1.attributes[i + 1])
       IN IF r.ok THEN PrepareLoop(r.I, r.B, i + 1) ELSE r

\* Instance.prepareAttributes()
prepareAttributes(I, B) ==
  LET a1 == IF I.geometry.vertices.kind # "undef"
            THEN Append(I.attributes, [name |-> "aPosition", size |-> 3, data |-> Undefined])
            ELSE I.attributes
      a2 == IF I.geometry.normal.kind # "undef"
            THEN Append(a1, [name |-> "aNormal", size |-> 3, data |-> Undefined])
            ELSE a1
  IN PrepareLoop([I EXCEPT !.attributes = a2, !.attributeKeys = <<>>], B, 0)

\* Instance.prepareUniforms(): every entry gets its location in the program
prepareUniforms(I) ==
  [I EXCEPT !.uniforms = [k \in DOMAIN I.uniforms |->
                            [I.uniforms[k] EXCEPT !.location = I.program]]]

Val(v) == [kind |-> "val", val |-> v]

DefaultGeometry == [vertices |-> Val(<<[x |-> 0, y |-> 0, z |-> 0]>>), normal |-> Undefined]

\* shader sources, by what the driver makes of them: "undefined" is the source
\* of an instance created without one, "mismatched" compiles and does not link
Sources == {"valid", "invalid", "mismatched", "undefined"}

\* Instance.compileShader(type, source): the shader object is returned whatever
\* the driver reports; its COMPILE_STATUS is never read
compileShader(source) == [source |-> source, compiled |-> source \in {"valid", "mismatched"}]

\* Instance.prepareProgram(): the LINK_STATUS of the program, which is never read
prepareProgram(vertex, fragment) ==
  /\ compileShader(vertex).compiled
  /\ compileShader(fragment).compiled
  /\ "mismatched" \notin {vertex, fragment}

\* new Instance(props): defaults, then props, then program, uniforms, attributes
NewInstance(props, program, B) ==
  prepareAttributes(
    prepareUniforms([gl |-> TRUE,
                     program |-> program,
                     linked |-> prepareProgram(props.vertex, props.fragment),
                     vertex |-> props.vertex,
                     fragment |-> props.fragment,
                     uniforms |-> props.uniforms,
                     geometry |-> props.geometry,
                     modifiers |-> props.modifiers,
                     attributes |-> props.attributes,
                     attributeKeys |-> <<>>,
                     multiplier |-> props.multiplier,
                     mode |-> props.mode,
                     buffers |-> <<>>,
                     onRender |-> props.onRender]),
    B)

\* gl.deleteBuffer for every buffer of I
RECURSIVE DeleteBuffers(_, _, _)
DeleteBuffers(I, B, i) ==
  IF i > Len(I.buffers) THEN B
  ELSE DeleteBuffers(I,
         IF I.buffers[i].buffer \in 1..Len(B)
         THEN [B EXCEPT ![I.buffers[i].buffer].deleted = @ + 1] ELSE B,
         i + 1)

\* a destroy that forgets the buffers
InstanceDestroyLeaks(I, B) == Ok([I EXCEPT !.gl = FALSE], B)

\* Instance.destroy(): throws when this.gl is already null or a buffer slot is a hole
InstanceDestroy(I, B) ==
  IF ~I.gl \/ \E i \in 1..Len(I.buffers) : I.buffers[i] = Hole
  THEN Throw(I, B)
  ELSE Ok([I EXCEPT !.gl = FALSE], DeleteBuffers(I, B, 1))

-----------------------------------------------------------------------------
(* Uniform dictionaries.  A value is a number, or a reference to an array   *)
(* in the heap; two entries share storage iff they hold the same reference. *)

Num(n) == [k |-> "num", v |-> n]

Ref(r) == [k |-> "ref", v |-> r]

MatrixKeys == <<"uProjectionMatrix", "uViewMatrix", "uModelMatrix">>

\* the reference of the array cloned for entry i of the instance with identity id
InstanceRef(id, i) == 10 * id + i

\* the reference of the array resize() creates for matrix i the g-th time
RendererRef(g, i) == 100 * g + i

\* a generation of renderer arrays no live reference belongs to
Generation(h) == CHOOSE g \in 1..(Cardinality(DOMAIN h) + 1) :
                   /\ \A r \in DOMAIN h : r \div 100 # g
                   /\ \A q \in 1..(g - 1) : \E r \in DOMAIN h : r \div 100 = q

UKeys(U) == {U[i].key : i \in 1..Len(U)}

UGet(U, key) == U[IndexOf([i \in 1..Len(U) |-> U[i].key], key) + 1]

\* this.uniforms[key] = entry: a new key goes last, an old one keeps its place
UPut(U, entry) ==
  IF entry.key \in UKeys(U)
  THEN [i \in 1..Len(U) |-> IF U[i].key = entry.key THEN entry ELSE U[i]]
  ELSE Append(U, entry)

\* JSON has no NaN: JSON.stringify writes null for it, JSON.parse reads null back
Null == -3

\* JSON.parse(JSON.stringify(n)) for a number n
Json(n) == IF n = NaN THEN Null ELSE n

\* a copy that loses the elements
CloneEmpty(value, h, r) ==
  IF value.k = "ref" THEN [value |-> Ref(r), heap |-> (r :> 0) @@ h]
  ELSE [value |-> Num(0), heap |-> h]

\* a copy that keeps the array of the original
CloneShares(value, h, r) == [value |-> value, heap |-> h]

\* the value as JSON.parse(JSON.stringify(value)) rebuilds it: a number is
\* what Json makes of it, an array is a new array of what Json makes of its elements
CloneValue(value, h, r) ==
  IF value.k = "ref"
  THEN [value |-> Ref(r), heap |-> (r :> Json(h[value.v])) @@ h]
  ELSE [value |-> Num(Json(value.v)), heap |-> h]

\* Object.assign(settings.uniforms, JSON.parse(JSON.stringify(this.uniforms)))
RECURSIVE AssignClone(_, _, _, _, _)
AssignClone(dict, U, i, h, id) ==
  IF i > Len(U) THEN [uniforms |-> dict, heap |-> h]
  ELSE LET c == CloneValue(U[i].value, h, InstanceRef(id, i))
           e == [type |-> U[i].type, value |-> c.value, location |-> 0]
       IN AssignClone((U[i].key :> e) @@ dict, U, i + 1, c.heap, id)

\* references held by the renderer or by any instance
Live(U, insts) ==
  {U[i].value.v : i \in {j \in 1..Len(U) : U[j].value.k = "ref"}}
  \cup UNION {{insts[n].uniforms[k].value.v :
                 k \in {q \in DOMAIN insts[n].uniforms : insts[n].uniforms[q].value.k = "ref"}} :
              n \in 1..Len(insts)}

\* arrays nobody references are gone
Collect(h, U, insts) == [r \in (DOMAIN h \cap Live(U, insts)) |-> h[r]]

\* a merge that replaces the whole entry
MergeEntry(entry, shared) == [type |-> shared.type, value |-> shared.value, location |-> -1]

\* uniforms[key].value = renderUniforms[key].value
MergeValue(entry, shared) == [entry EXCEPT !.value = shared.value]

\* Object.keys(renderUniforms).forEach(...) of Instance.render, from index i;
\* uniforms[key] of a key the instance lacks is undefined and the assignment throws
RECURSIVE Merge(_, _, _)
Merge(dict, U, i) ==
  IF i > Len(U) THEN [ok |-> TRUE, uniforms |-> dict]
  ELSE IF U[i].key \notin DOMAIN dict THEN [ok |-> FALSE, uniforms |-> dict]
  ELSE Merge([dict EXCEPT ![U[i].key] = MergeValue(@, U[i])], U, i + 1)

\* gl.useProgram, then the three calls that bind each of the first n buffers
Binds(I, n) ==
  <<[op |-> "useProgram", program |-> I.program]>> \o
  [i \in 1..n |-> [op |-> "bindBuffer", buffer |-> I.buffers[i].buffer]]

\* the buffers before the first slot that is a hole, where the destructuring throws
Bound(I) ==
  IF \E i \in 1..Len(I.buffers) : I.buffers[i] = Hole
  THEN (CHOOSE i \in 1..Len(I.buffers) :
          I.buffers[i] = Hole /\ \A j \in 1..(i - 1) : I.buffers[j] # Hole) - 1
  ELSE Len(I.buffers)

\* Object.keys(uniforms).forEach(...): uniformMap[type](location, value) for
\* every entry; the order of the keys within the dictionary is not modelled
RECURSIVE Uploads(_, _)
Uploads(dict, keys) ==
  IF keys = {} THEN <<>>
  ELSE LET key == CHOOSE k \in keys : TRUE
       IN <<[op |-> "uniform", key |-> key, type |-> dict[key].type,
             location |-> dict[key].location, value |-> dict[key].value]>>
          \o Uploads(dict, keys \ {key})

\* gl.drawArrays(this.mode, 0, multiplier * this.geometry.vertices.length)
Draws(I) ==
  <<[op |-> "drawArrays", mode |-> I.mode, first |-> 0,
     count |-> I.multiplier * Len(I.geometry.vertices.val)]>>

\* if (this.onRender) this.onRender(this)
Hooks(I) == IF I.onRender THEN <<[op |-> "onRender", arg |-> I.program]>> ELSE <<>>

\* Instance.render(renderUniforms): the instance after the merge and the calls
\* made, in order; the body of the hook runs as steps of its own
InstanceRender(I, U) ==
  IF ~I.gl THEN [ok |-> FALSE, I |-> I, calls |-> <<>>]
  ELSE IF Bound(I) < Len(I.buffers)
  THEN [ok |-> FALSE, I |-> I, calls |-> Binds(I, Bound(I))]
  ELSE LET m == Merge(I.uniforms, U, 1)
       IN IF m.ok
          THEN [ok |-> TRUE, I |-> [I EXCEPT !.uniforms = m.uniforms],
                calls |-> Binds(I, Len(I.buffers)) \o Uploads(m.uniforms, DOMAIN m.uniforms)
                            \o Draws(I) \o Hooks(I)]
          ELSE [ok |-> FALSE, I |-> [I EXCEPT !.uniforms = m.uniforms], calls |-> Binds(I, Len(I.buffers))]

-----------------------------------------------------------------------------
(* Renderer *)

Keys == {"a", "b"}

Top == stack[Len(stack)]

Idle == stack = <<>>

InHook == ~Idle /\ Top.pc \in {"ihook", "ghook"}

\* the renderer's methods are called from the event loop or from a hook
CanCall == started /\ (Idle \/ InHook)

RegKeys == [i \in 1..Len(instances) |-> instances[i].key]

\* Renderer.render(): gl.clear, then the registry is iterated
Frame(origin) ==
  [origin |-> origin, pc |-> "iter", pos |-> 0, log |-> <<"clear">>,
   mutated |-> FALSE, stopped |-> 0]

\* the registry changed while these frames were in flight
Mutated(st) == [i \in 1..Len(st) |-> [st[i] EXCEPT !.mutated = TRUE]]

\* Map.delete of the entry at index d (1-based) under running forEach loops
Deleted(st, d) ==
  [i \in 1..Len(st) |-> [st[i] EXCEPT !.mutated = TRUE,
                                      !.pos = IF d <= @ THEN @ - 1 ELSE @]]

\* a delete that leaves the entry in the map
RemoveAtNone(s, d) == s

RemoveAt(s, d) == [i \in 1..(Len(s) - 1) |-> IF i < d THEN s[i] ELSE s[i + 1]]

\* the values resize() computes from the canvas ratio
ResizeValue(key, ratio) == IF key = "uViewMatrix" THEN 1 ELSE ratio

\* Renderer.resize(): three new entries, each with a new array
RECURSIVE ResizeFrom(_, _, _, _, _)
ResizeFrom(U, h, i, ratio, g) ==
  IF i > Len(MatrixKeys) THEN [uniforms |-> U, heap |-> h]
  ELSE ResizeFrom(UPut(U, [key |-> MatrixKeys[i], type |-> "mat4",
                           value |-> Ref(RendererRef(g, i))]),
                  (RendererRef(g, i) :> ResizeValue(MatrixKeys[i], ratio)) @@ h,
                  i + 1, ratio, g)

\* the arrays instances still reference once the renderer lets go of its own
Kept(h, insts) == Collect(h, <<>>, insts)

\* a toggle without the early return
ToggleReturnsNever(v, current) == FALSE

\* if (shouldRender === this.shouldRender) return; v is "true", "false" or "undefined"
ToggleReturns(v, current) == v # "undefined" /\ (v = "true") = current

\* a toggle that ignores its argument
ToggleNegates(v, current) == ~current

\* this.shouldRender after toggle(v)
ToggleNext(v, current) ==
  IF ToggleReturns(v, current) THEN current
  ELSE IF v # "undefined" THEN v = "true" ELSE ~current

\* a toggle that only flips the flag
ToggleRendersNever(v, current) == FALSE

\* if (this.shouldRender) this.render(), reached unless toggle returned early
ToggleRenders(v, current) == ~ToggleReturns(v, current) /\ ToggleNext(v, current)

\* the run state was set to Stopped while these frames were in flight:
\* each remembers how far it had come at the first such call
Stopped(st) ==
  [i \in 1..Len(st) |-> [st[i] EXCEPT !.stopped = IF @ = 0 THEN Len(st[i].log) ELSE @]]

Recent(h, e) == IF Len(h) < 2 THEN Append(h, e) ELSE <<h[2], e>>

-----------------------------------------------------------------------------
(* Steps of the frame loop *)

\* an exception unwinds every activation up to the event loop
Raise(c) ==
  /\ stack' = <<>>
  /\ call' = c

\* a request that does not look at the run state
RequestsAlways(running) == 1

\* if (this.shouldRender) requestAnimationFrame(() => this.render())
Requests(running) == IF running THEN 1 ELSE 0

\* the end of Renderer.render(): the next frame is requested if still running
FrameEnd(f) ==
  /\ raf' = raf + Requests(shouldRender)
  /\ stack' = SubSeq(stack, 1, Len(stack) - 1)
  /\ call' = [op |-> "end",
              frame |-> [f EXCEPT !.log = IF raf' > raf THEN Append(@, "schedule") ELSE @],
              running |-> shouldRender,
              scheduled |-> raf' - raf]

\* new Phenomenon(props): settings, resize(), render()
Construct(ratio) ==
  /\ ~started
  /\ started' = TRUE
  /\ LET r == ResizeFrom(uniforms, heap, 1, ratio, 1)
     IN uniforms' = r.uniforms /\ heap' = r.heap
  /\ stack' = <<Frame("ctor")>>
  /\ call' = [op |-> "new"]
  /\ UNCHANGED <<shouldRender, onRender, raf, instances, inst, glBuffers, glPrograms, hist>>

\* a requestAnimationFrame callback runs: () => this.render()
Tick ==
  /\ started /\ Idle /\ raf > 0
  /\ raf' = raf - 1
  /\ stack' = <<Frame("raf")>>
  /\ call' = [op |-> "tick"]
  /\ UNCHANGED <<started, shouldRender, onRender, uniforms, heap, instances, inst,
                 glBuffers, glPrograms, hist>>

\* instances.forEach: the next instance renders, then its hook may run
RenderNext ==
  /\ ~Idle /\ Top.pc = "iter" /\ Top.pos < Len(instances)
  /\ LET e == instances[Top.pos + 1]
         r == InstanceRender(inst[e.id], uniforms)
     IN /\ inst' = [inst EXCEPT ![e.id] = r.I]
        /\ heap' = Collect(heap, uniforms, inst')
        /\ IF r.ok
           THEN /\ stack' = [stack EXCEPT ![Len(stack)] =
                       [@ EXCEPT !.pos = @ + 1,
                                 !.log = Append(@, e.key),
                                 !.pc = IF inst[e.id].onRender THEN "ihook" ELSE "iter"]]
                /\ call' = [op |-> "render", id |-> e.id, before |-> inst[e.id],
                            shared |-> UKeys(uniforms), calls |-> r.calls]
           ELSE Raise([op |-> "throw", from |-> "render", id |-> e.id,
                       before |-> inst[e.id], shared |-> UKeys(uniforms),
                       calls |-> r.calls])
  /\ UNCHANGED <<started, shouldRender, onRender, raf, uniforms, instances,
                 glBuffers, glPrograms, hist>>

\* a loop that may leave before the last instance
DoneAlways(f) == TRUE

\* instances.forEach has visited every entry
Done(f) == f.pos >= Len(instances)

\* all instances rendered: the global hook is invoked, or the frame ends
AfterInstances ==
  /\ ~Idle /\ Top.pc = "iter" /\ Done(Top)
  /\ IF onRender
     THEN /\ stack' = [stack EXCEPT ![Len(stack)] =
                         [@ EXCEPT !.pc = "ghook", !.log = Append(@, "hook")]]
          /\ call' = [op |-> "hook"]
          /\ raf' = raf
     ELSE FrameEnd(Top)
  /\ UNCHANGED <<started, shouldRender, onRender, uniforms, heap, instances, inst,
                 glBuffers, glPrograms, hist>>

\* a hook returns
HookReturn ==
  /\ InHook
  /\ IF Top.pc = "ihook"
     THEN /\ stack' = [stack EXCEPT ![Len(stack)] = [@ EXCEPT !.pc = "iter"]]
          /\ call' = [op |-> "return"]
          /\ raf' = raf
     ELSE FrameEnd(Top)
  /\ UNCHANGED <<started, shouldRender, onRender, uniforms, heap, instances, inst,
                 glBuffers, glPrograms, hist>>

\* Renderer.toggle(v)
ToggleCall(v) ==
  /\ CanCall
  /\ ToggleRenders(v, shouldRender) => raf + Len(stack) < MaxRaf
  /\ shouldRender' = ToggleNext(v, shouldRender)
  /\ call' = [op |-> "toggle", arg |-> v, was |-> shouldRender, frames |-> stack]
  /\ stack' = LET st == IF ~ToggleNext(v, shouldRender) THEN Stopped(stack) ELSE stack
              IN IF ToggleRenders(v, shouldRender)
                 THEN Append(st, Frame("toggle"))
                 ELSE st
  /\ UNCHANGED <<started, onRender, raf, uniforms, heap, instances, inst,
                 glBuffers, glPrograms>>

\* Renderer.resize(), from the resize listener or from the application
Resize(ratio) ==
  /\ CanCall
  /\ LET r == ResizeFrom(uniforms, Kept(heap, inst), 1, ratio, Generation(Kept(heap, inst)))
     IN uniforms' = r.uniforms /\ heap' = r.heap
  /\ call' = [op |-> "resize"]
  /\ UNCHANGED <<started, shouldRender, onRender, raf, instances, inst,
                 glBuffers, glPrograms, stack, hist>>

\* renderer.uniforms.uProgress = { type: 'float', value: v }
SetShared(v) ==
  /\ CanCall
  /\ uniforms' = UPut(uniforms, [key |-> "uProgress", type |-> "float", value |-> Num(v)])
  /\ call' = [op |-> "setShared"]
  /\ UNCHANGED <<started, shouldRender, onRender, raf, heap, instances, inst,
                 glBuffers, glPrograms, stack, hist>>

\* the application changes a shared value in place:
\* renderer.uniforms[key].value[0] = v for an array, .value = v for a number
MutateShared(key, v) ==
  /\ CanCall
  /\ key \in UKeys(uniforms)
  /\ LET e == UGet(uniforms, key)
     IN IF e.value.k = "ref"
        THEN /\ heap[e.value.v] # v
             /\ heap' = [heap EXCEPT ![e.value.v] = v]
             /\ uniforms' = uniforms
             /\ call' = [op |-> "mutate", key |-> key]
        ELSE /\ e.value.v # v
             /\ uniforms' = UPut(uniforms, [e EXCEPT !.value = Num(v)])
             /\ heap' = heap
             /\ call' = [op |-> "assign", key |-> key]
  /\ UNCHANGED <<started, shouldRender, onRender, raf, instances, inst,
                 glBuffers, glPrograms, stack, hist>>

-----------------------------------------------------------------------------
(* The registry *)

\* a registry that forgets its entries
MapSetAlone(reg, key, id) == <<[key |-> key, id |-> id]>>

\* a registry that keeps the entry a key had
MapSetAppends(reg, key, id) == Append(reg, [key |-> key, id |-> id])

\* Map.set(key, id): a present key keeps its place
MapSet(reg, key, id) ==
  IF \E i \in 1..Len(reg) : reg[i].key = key
  THEN [i \in 1..Len(reg) |-> IF reg[i].key = key THEN [key |-> key, id |-> id] ELSE reg[i]]
  ELSE Append(reg, [key |-> key, id |-> id])

\* Renderer.add(key, settings)
Add(key, settings) ==
  /\ CanCall
  /\ Len(inst) < MaxInstances
  /\ Len(glBuffers) + Len(settings.attributes) + 2 <= MaxBuffers
  /\ LET id == Len(inst) + 1
         a == AssignClone(settings.uniforms, uniforms, 1, heap, id)
         r == NewInstance([settings EXCEPT !.uniforms = a.uniforms], id, glBuffers)
     IN /\ glBuffers' = r.B
        /\ IF r.ok
           THEN /\ inst' = Append(inst, r.I)
                /\ glPrograms' = Append(glPrograms, 0)
                /\ instances' = MapSet(instances, key, id)
                /\ heap' = a.heap
                /\ stack' = Mutated(stack)
                /\ call' = [op |-> "add", key |-> key, id |-> id, settings |-> settings]
           ELSE /\ inst' = inst
                /\ glPrograms' = glPrograms
                /\ instances' = instances
                /\ heap' = heap
                /\ Raise([op |-> "throw", from |-> "add", key |-> key, settings |-> settings])
  /\ UNCHANGED <<started, shouldRender, onRender, raf, uniforms, hist>>

\* the longest attribute array a configuration object is given to add with
MaxAttributes == 6

\* the configuration object instance I was constructed from, as it is now:
\* Object.assign(this, props) gave the instance the caller's attribute array and
\* uniform dictionary themselves, so what the instance did to them shows here
Config(I) ==
  [uniforms |-> I.uniforms, onRender |-> I.onRender, attributes |-> I.attributes,
   geometry |-> I.geometry, modifiers |-> I.modifiers, multiplier |-> I.multiplier,
   mode |-> I.mode, vertex |-> I.vertex, fragment |-> I.fragment]

\* Renderer.add(key, cfg) with the configuration object instance n was
\* constructed from: the new instance and instance n hold the same attribute
\* array and the same uniform dictionary
AddAgain(key, n) ==
  /\ CanCall
  /\ n \in 1..Len(inst)
  /\ Len(inst) < MaxInstances
  /\ Len(inst[n].attributes) < MaxAttributes
  /\ LET id == Len(inst) + 1
         settings == Config(inst[n])
         a == AssignClone(settings.uniforms, uniforms, 1, heap, id)
         r == NewInstance([settings EXCEPT !.uniforms = a.uniforms], id, glBuffers)
         shared == [inst EXCEPT ![n].attributes = r.I.attributes,
                                ![n].uniforms = r.I.uniforms]
     IN /\ Len(r.B) <= MaxBuffers
        /\ glBuffers' = r.B
        /\ heap' = a.heap
        /\ IF r.ok
           THEN /\ inst' = Append(shared, r.I)
                /\ glPrograms' = Append(glPrograms, 0)
                /\ instances' = MapSet(instances, key, id)
                /\ stack' = Mutated(stack)
                /\ call' = [op |-> "addAgain", key |-> key, id |-> id, of |-> n,
                            settings |-> settings]
           ELSE /\ inst' = shared
                /\ glPrograms' = glPrograms
                /\ instances' = instances
                /\ Raise([op |-> "throw", from |-> "addAgain", key |-> key, of |-> n,
                          settings |-> settings])
  /\ UNCHANGED <<started, shouldRender, onRender, raf, uniforms, hist>>

\* a remove that does not look the key up
RemoveClears(key) ==
  /\ CanCall
  /\ instances' = <<>>
  /\ stack' = Mutated(stack)
  /\ call' = [op |-> "remove", key |-> key, found |-> FALSE]
  /\ UNCHANGED <<started, shouldRender, onRender, raf, uniforms, heap, inst, glBuffers,
                 glPrograms, hist>>

\* Renderer.remove(key)
Remove(key) ==
  /\ CanCall
  /\ IF \A i \in 1..Len(instances) : instances[i].key # key
     THEN /\ call' = [op |-> "remove", key |-> key, found |-> FALSE]
          /\ UNCHANGED <<instances, inst, glBuffers, glPrograms, stack>>
     ELSE LET d == IndexOf(RegKeys, key) + 1
              id == instances[d].id
              r == InstanceDestroy(inst[id], glBuffers)
          IN IF r.ok
             THEN /\ inst' = [inst EXCEPT ![id] = r.I]
                  /\ glBuffers' = r.B
                  /\ glPrograms' = [glPrograms EXCEPT ![id] = @ + 1]
                  /\ instances' = RemoveAt(instances, d)
                  /\ stack' = Deleted(stack, d)
                  /\ call' = [op |-> "remove", key |-> key, found |-> TRUE]
             ELSE /\ Raise([op |-> "throw", from |-> "remove", key |-> key])
                  /\ UNCHANGED <<instances, inst, glBuffers, glPrograms>>
  /\ UNCHANGED <<started, shouldRender, onRender, raf, uniforms, heap, hist>>

\* the forEach of Renderer.destroy(): destroy and delete each instance
RECURSIVE DestroyLoop(_)
DestroyLoop(s) ==
  IF s.instances = <<>> THEN s
  ELSE LET id == s.instances[1].id
           r == InstanceDestroy(s.inst[id], s.B)
       IN IF ~r.ok THEN [s EXCEPT !.ok = FALSE]
          ELSE DestroyLoop([ok |-> TRUE,
                            instances |-> Tail(s.instances),
                            inst |-> [s.inst EXCEPT ![id] = r.I],
                            B |-> r.B,
                            P |-> [s.P EXCEPT ![id] = @ + 1],
                            stack |-> Deleted(s.stack, 1)])

\* Renderer.destroy()
DestroyCall ==
  /\ CanCall
  /\ LET r == DestroyLoop([ok |-> TRUE, instances |-> instances, inst |-> inst,
                           B |-> glBuffers, P |-> glPrograms, stack |-> stack])
     IN /\ instances' = r.instances
        /\ inst' = r.inst
        /\ glBuffers' = r.B
        /\ glPrograms' = r.P
        /\ IF r.ok
           THEN /\ shouldRender' = ToggleNext("false", shouldRender)
                /\ stack' = Stopped(r.stack)
                /\ call' = [op |-> "destroy"]
           ELSE /\ Raise([op |-> "throw", from |-> "destroy"])
                /\ UNCHANGED shouldRender
  /\ UNCHANGED <<started, onRender, raf, uniforms, heap>>

\* instance.destroy() on a handle returned by add
DestroyInstance(id) ==
  /\ CanCall
  /\ id \in 1..Len(inst)
  /\ LET r == InstanceDestroy(inst[id], glBuffers)
     IN IF r.ok
        THEN /\ inst' = [inst EXCEPT ![id] = r.I]
             /\ glBuffers' = r.B
             /\ glPrograms' = [glPrograms EXCEPT ![id] = @ + 1]
             /\ call' = [op |-> "instanceDestroy", id |-> id]
             /\ stack' = stack
        ELSE /\ Raise([op |-> "throw", from |-> "instanceDestroy", id |-> id])
             /\ UNCHANGED <<inst, glBuffers, glPrograms>>
  /\ UNCHANGED <<started, shouldRender, onRender, raf, uniforms, heap, instances, hist>>

\* instance.prepareAttribute(attribute) on a handle returned by add
PrepareAttributeCall(id, attribute) ==
  /\ CanCall
  /\ id \in 1..Len(inst)
  /\ inst[id].gl
  /\ Len(glBuffers) < MaxBuffers
  /\ LET r == prepareAttribute(inst[id], glBuffers, attribute)
     IN IF r.ok
        THEN /\ inst' = [inst EXCEPT ![id] = r.I]
             /\ glBuffers' = r.B
             /\ call' = [op |-> "prepareAttribute", id |-> id, attribute |-> attribute,
                         before |-> inst, buffers |-> glBuffers,
                         calls |-> attributeBufferData(inst[id], attribute).calls]
             /\ stack' = stack
        ELSE /\ Raise([op |-> "throw", from |-> "prepareAttribute"])
             /\ UNCHANGED <<inst, glBuffers>>
  /\ UNCHANGED <<started, shouldRender, onRender, raf, uniforms, heap, instances,
                 glPrograms, hist>>

\* the run-state calls, and the same calls with their history kept
Toggle(v) == ToggleCall(v) /\ UNCHANGED hist

Destroy == DestroyCall /\ UNCHANGED hist

ToggleTracked(v) == ToggleCall(v) /\ hist' = Recent(hist, [arg |-> v, was |-> shouldRender])

DestroyTracked == DestroyCall /\ hist' = Recent(hist, [arg |-> "false", was |-> shouldRender])

-----------------------------------------------------------------------------
(* Inputs *)

Values == 0..MaxValue

Private == [type |-> "float", value |-> Num(1), location |-> 0]

\* settings of the instances of the frame-loop specification
RenderSettings ==
  {[uniforms |-> u, onRender |-> h, attributes |-> <<>>, geometry |-> DefaultGeometry,
    modifiers |-> <<>>, multiplier |-> 1, mode |-> 0,
    vertex |-> "valid", fragment |-> "valid"] :
     u \in {"uPrivate" :> Private}, h \in BOOLEAN}

Vertex(k) == [x |-> k, y |-> 0, z |-> 0]

Normal(k) == [x |-> 7 + k, y |-> 8, z |-> 9]

Geometries ==
  {[vertices |-> Val([k \in 1..n |-> Vertex(k - 1)]), normal |-> nm] :
     n \in 1..MaxVertices, nm \in {Undefined}} \cup
  {[vertices |-> Val([k \in 1..n |-> Vertex(k - 1)]),
    normal |-> Val([k \in 1..n |-> Normal(k - 1)])] : n \in 1..MaxVertices}

Descriptors(names, datas) ==
  {[name |-> nm, size |-> sz, data |-> d] : nm \in names, sz \in 1..MaxSize, d \in datas}

ModifierTables == {<<>>, "aOffset" :> "shift", "aPosition" :> "vertex"}

\* add(key) with the settings omitted: settings = { uniforms: {} }
Omitted ==
  [uniforms |-> <<>>, onRender |-> FALSE, attributes |-> <<>>, geometry |-> DefaultGeometry,
   modifiers |-> <<>>, multiplier |-> 1, mode |-> 0,
   vertex |-> "undefined", fragment |-> "undefined"]

\* settings of the instances of the release specification
ReleaseSettings ==
  {Omitted,
   [Omitted EXCEPT !.uniforms = "uPrivate" :> Private,
                   !.attributes = <<[name |-> "aOffset", size |-> 1, data |-> Fn("index")]>>],
   [Omitted EXCEPT !.attributes = <<[name |-> "aOffset", size |-> 1, data |-> Undefined]>>]}

\* the descriptors the release specification recompiles
ReleaseDescriptors ==
  {[name |-> "aPosition", size |-> 3, data |-> Undefined],
   [name |-> "aOffset", size |-> 1, data |-> Fn("count")]}

\* settings of the instances of the shader specification
ShaderSettings ==
  {[Omitted EXCEPT !.vertex = v, !.fragment = f] :
     v \in {"valid", "invalid"}, f \in {"valid", "invalid", "mismatched"}}

\* settings of the instances of the configuration specification: an attribute
\* array with one generated attribute
ConfigSettings ==
  {[uniforms |-> <<>>, onRender |-> FALSE, attributes |-> <<d>>, geometry |-> g,
    modifiers |-> m, multiplier |-> n, mode |-> 0,
    vertex |-> "valid", fragment |-> "valid"] :
     d \in Descriptors({"aOffset"}, {Fn("index")}),
     g \in Geometries, m \in ModifierTables, n \in 1..MaxMultiplier}

\* gl.POINTS, gl.TRIANGLES
Modes == {0, 4}

\* settings of the instances of the draw specification
DrawSettings ==
  {[uniforms |-> "uPrivate" :> Private, onRender |-> h, attributes |-> <<>>,
    geometry |-> [vertices |-> Val([k \in 1..n |-> Vertex(k - 1)]), normal |-> Undefined],
    modifiers |-> <<>>, multiplier |-> m, mode |-> d,
    vertex |-> "valid", fragment |-> "valid"] :
     h \in BOOLEAN, n \in 1..MaxVertices, m \in 1..MaxMultiplier, d \in Modes}

\* settings of the instances of the attribute specification
AttributeSettings ==
  {[uniforms |-> <<>>, onRender |-> FALSE, attributes |-> a, geometry |-> g,
    modifiers |-> m, multiplier |-> n, mode |-> 0,
    vertex |-> "valid", fragment |-> "valid"] :
     a \in {<<>>} \cup {<<d>> : d \in Descriptors({"aOffset"}, {Fn("index")})},
     g \in Geometries, m \in ModifierTables, n \in 1..MaxMultiplier}

-----------------------------------------------------------------------------
(* Specifications *)

Init ==
  /\ started = FALSE
  /\ shouldRender \in BOOLEAN
  /\ onRender \in BOOLEAN
  /\ raf = 0
  /\ uniforms = <<>>
  /\ heap = <<>>
  /\ instances = <<>>
  /\ inst = <<>>
  /\ glBuffers = <<>>
  /\ glPrograms = <<>>
  /\ stack = <<>>
  /\ call = [op |-> "init"]
  /\ hist = <<>>

Args == {"true", "false", "undefined"}

\* the frame loop and the registry
Next ==
  \/ Construct(1)
  \/ Tick
  \/ RenderNext
  \/ AfterInstances
  \/ HookReturn
  \/ \E v \in Args : Toggle(v)
  \/ SetShared(0)
  \/ \E key \in Keys, settings \in RenderSettings : Add(key, settings)
  \/ \E key \in Keys : Remove(key)
  \/ Destroy

Spec == Init /\ [][Next]_vars

\* the run state alone, with the history of the toggle calls
NextToggle ==
  \/ Construct(1)
  \/ Tick
  \/ AfterInstances
  \/ HookReturn
  \/ \E v \in Args : ToggleTracked(v)
  \/ DestroyTracked

SpecToggle == Init /\ [][NextToggle]_vars

\* the scheduler runs every callback it was given, and the frames and the hooks
\* run to their end
LoopFairness == WF_vars(Tick) /\ WF_vars(AfterInstances) /\ WF_vars(HookReturn)

SpecToggleFair == SpecToggle /\ LoopFairness

\* the shared uniforms: their values change while the loop runs
NextUniforms ==
  \/ Construct(1)
  \/ Tick
  \/ RenderNext
  \/ AfterInstances
  \/ HookReturn
  \/ Resize(1)
  \/ SetShared(0)
  \/ \E v \in Values : MutateShared("uModelMatrix", v)
  \/ MutateShared("uProgress", NaN)
  \/ \E key \in Keys, settings \in RenderSettings : Add(key, settings)

SpecUniforms == Init /\ [][NextUniforms]_vars

\* new Phenomenon({ settings: { shouldRender: false } }) has returned
InitAttr ==
  /\ started = TRUE
  /\ shouldRender = FALSE
  /\ onRender = FALSE
  /\ raf = 0
  /\ uniforms = ResizeFrom(<<>>, <<>>, 1, 1, 1).uniforms
  /\ heap = ResizeFrom(<<>>, <<>>, 1, 1, 1).heap
  /\ instances = <<>>
  /\ inst = <<>>
  /\ glBuffers = <<>>
  /\ glPrograms = <<>>
  /\ stack = <<>>
  /\ call = [op |-> "end", frame |-> Frame("ctor"), running |-> FALSE, scheduled |-> 0]
  /\ hist = <<>>

\* the attribute buffers of the instances
NextAttr ==
  \/ \E settings \in AttributeSettings : Add("a", settings)
  \/ \E id \in 1..MaxInstances,
        attribute \in Descriptors({"aPosition", "aNormal", "aOffset"},
                                  {Undefined, Fn("count")}) :
       PrepareAttributeCall(id, attribute)

SpecAttr == InitAttr /\ [][NextAttr]_vars

\* the draw calls of the instances of a running loop
NextDraw ==
  \/ Construct(1)
  \/ Tick
  \/ RenderNext
  \/ AfterInstances
  \/ HookReturn
  \/ SetShared(0)
  \/ \E key \in Keys, settings \in DrawSettings : Add(key, settings)

SpecDraw == Init /\ [][NextDraw]_vars

\* shaders the driver accepts or rejects, in stopped and running loops
NextShaders ==
  \/ Construct(1)
  \/ Tick
  \/ RenderNext
  \/ AfterInstances
  \/ HookReturn
  \/ \E key \in Keys, settings \in ShaderSettings : Add(key, settings)
  \/ \E key \in Keys : Remove(key)

SpecShaders == Init /\ [][NextShaders]_vars

\* one configuration object given to add twice
NextConfig ==
  \/ \E settings \in ConfigSettings : Add("a", settings)
  \/ \E n \in 1..MaxInstances : AddAgain("b", n)

SpecConfig == InitAttr /\ [][NextConfig]_vars

\* the handles of the instances: creation, hot swap, release
NextRelease ==
  \/ \E key \in Keys, settings \in ReleaseSettings : Add(key, settings)
  \/ \E id \in 1..MaxInstances, attribute \in ReleaseDescriptors :
       PrepareAttributeCall(id, attribute)
  \/ \E key \in Keys : Remove(key)
  \/ \E id \in 1..MaxInstances : DestroyInstance(id)
  \/ Destroy

SpecRelease == InitAttr /\ [][NextRelease]_vars

-----------------------------------------------------------------------------
(* Frames *)

\* the keys of the instances a frame has rendered, in order
Renders(f) == SelectSeq(f.log, LAMBDA e : e \in Keys)

Rank(e) == IF e = "clear" THEN 0 ELSE IF e \in Keys THEN 1 ELSE IF e = "hook" THEN 2 ELSE 3

IsPrefix(p, q) == Len(p) <= Len(q) /\ \A i \in 1..Len(p) : p[i] = q[i]

\* the frames in flight, and the frame that has just ended
Frames ==
  {stack[i] : i \in 1..Len(stack)} \cup (IF call.op = "end" THEN {call.frame} ELSE {})

Ended(f) == call.op = "end" /\ f = call.frame

\* a frame that ran every step: the clear, every instance of a registry no
\* hook changed meanwhile, the global hook when there is one
Complete(f) ==
  /\ f.log[1] = "clear"
  /\ ~f.mutated => Renders(f) = RegKeys
  /\ onRender => \E i \in 1..Len(f.log) : f.log[i] = "hook"

C3_Original ==
  (call.op = "end" /\ call.frame.stopped > 0) => call.scheduled = 0

\* C3: toggle(false) called from a hook does not pre-empt the frame in flight:
\* the frame keeps its position, runs its remaining steps, and at its end
\* schedules no next frame unless the run state is Running again by then.
C3_StopIsCooperative ==
  /\ (call.op = "toggle" /\ call.arg = "false" /\ call.frames # <<>>) =>
       stack = Stopped(call.frames)
  /\ (call.op = "end" /\ call.frame.stopped > 0) =>
       /\ Complete(call.frame)
       /\ call.scheduled = (IF call.running THEN 1 ELSE 0)

\* stopped from the hook of the first of two instances: the second instance
\* and the global hook still ran, and nothing was scheduled
C3_Witness ==
  /\ call.op = "end" /\ call.frame.stopped = 2
  /\ Len(call.frame.log) = 4 /\ call.frame.log[4] = "hook"
  /\ ~call.frame.mutated /\ ~call.running /\ call.scheduled = 0

\* C4: every frame clears first, then renders each registered instance once
\* in the insertion order of the registry, then invokes the global hook if
\* there is one, and only then requests exactly one next frame if the run
\* state is Running at that point.
C4_FrameOrder ==
  \A f \in Frames :
    /\ f.log[1] = "clear"
    /\ \A i, j \in 1..Len(f.log) :
         i < j => /\ Rank(f.log[i]) <= Rank(f.log[j])
                  /\ f.log[j] \notin Keys => f.log[i] # f.log[j]
    /\ ~f.mutated =>
         /\ IsPrefix(Renders(f), RegKeys)
         /\ (Ended(f) \/ \E i \in 1..Len(f.log) : f.log[i] = "hook") => Renders(f) = RegKeys
    /\ (\E i \in 1..Len(f.log) : f.log[i] = "hook") => onRender
    /\ Ended(f) =>
         /\ onRender => \E i \in 1..Len(f.log) : f.log[i] = "hook"
         /\ call.scheduled = (IF call.running THEN 1 ELSE 0)
         /\ (f.log[Len(f.log)] = "schedule") = call.running

\* a frame over the registry <<b, a>> with a global hook, rescheduled
C4_Witness ==
  /\ call.op = "end"
  /\ RegKeys = <<"b", "a">>
  /\ call.frame.log = <<"clear", "b", "a", "hook", "schedule">>

-----------------------------------------------------------------------------
(* Run state *)

\* C1: toggle(v) leaves the run state alone when v is given and equals it;
\* otherwise the run state becomes v when v is given and the negation of the
\* old state when v is omitted; so two toggle() calls in a row, with no other
\* run-state call between them, restore the state the first one found.
C1_ToggleTransition ==
  /\ call.op = "toggle" =>
       /\ (call.arg = "true" /\ call.was) => shouldRender
       /\ (call.arg = "false" /\ ~call.was) => ~shouldRender
       /\ (call.arg = "true" /\ ~call.was) => shouldRender
       /\ (call.arg = "false" /\ call.was) => ~shouldRender
       /\ call.arg = "undefined" => shouldRender = ~call.was
  /\ (Len(hist) = 2 /\ hist[1].arg = "undefined" /\ hist[2].arg = "undefined")
       => shouldRender = hist[1].was

\* two toggle() calls in a row from Stopped, the first one running a frame
C1_Witness ==
  /\ call.op = "toggle" /\ call.arg = "undefined"
  /\ Len(hist) = 2 /\ hist[1].arg = "undefined" /\ hist[2].arg = "undefined"
  /\ ~hist[1].was /\ ~shouldRender

-----------------------------------------------------------------------------
(* Uniforms *)

\* the value of entry e, with an array read through its reference
Content(e) == IF e.value.k = "ref" THEN heap[e.value.v] ELSE e.value.v

\* instance id and the renderer hold the same array under key
Aliased(id, key) ==
  /\ key \in UKeys(uniforms) /\ key \in DOMAIN inst[id].uniforms
  /\ inst[id].uniforms[key].value.k = "ref"
  /\ inst[id].uniforms[key].value = UGet(uniforms, key).value

Rendered == call.op = "render" \/ (call.op = "throw" /\ call.from = "render")

\* C6: Instance.render changes of the instance's uniforms only the values of the
\* keys present in the renderer's dictionary: it adds and removes no entry, every
\* entry keeps its type and its location, and every entry under a key the
\* renderer's dictionary lacks keeps its value.
C6_MergeOnlyOverwrites ==
  Rendered =>
    LET now == inst[call.id].uniforms
        was == call.before.uniforms
    IN /\ DOMAIN now = DOMAIN was
       /\ \A key \in DOMAIN now :
            /\ now[key].type = was[key].type
            /\ now[key].location = was[key].location
            /\ key \notin call.shared => now[key] = was[key]

\* a render has overwritten a shared value and left the instance's own entry alone
C6_Witness ==
  /\ call.op = "render"
  /\ "uPrivate" \in DOMAIN inst[call.id].uniforms /\ "uPrivate" \notin call.shared
  /\ \E key \in call.shared :
       inst[call.id].uniforms[key].value # call.before.uniforms[key].value

\* C7 as stated: each frame, every registered instance receives every shared
\* uniform: once the frame loop has called render on an instance, the instance
\* holds every key of the renderer's dictionary with the renderer's value.
C7_Original ==
  (Rendered /\ inst[call.id].gl) =>
    \A key \in UKeys(uniforms) :
      /\ key \in DOMAIN inst[call.id].uniforms
      /\ inst[call.id].uniforms[key].value = UGet(uniforms, key).value

-----------------------------------------------------------------------------
(* Attribute buffers *)

\* the Float32Array uploaded to the buffer of attribute i (1-based) of instance I
Uploaded(I, i) == glBuffers[I.buffers[i].buffer].data.arr

\* the descriptor attribute i of the instance made by the last add was compiled
\* from: the caller's, or the one the constructor appends for the geometry
Compiled(i) ==
  IF i <= Len(call.settings.attributes) THEN call.settings.attributes[i]
  ELSE [name |-> inst[call.id].attributes[i].name,
        size |-> inst[call.id].attributes[i].size,
        data |-> Undefined]

\* what the generator of descriptor d returns for replica m of M
GeneratorOutput(d, m, M) ==
  IF d.data.kind = "fn" THEN Val(Generate(d.data.fn, m, M)) ELSE Undefined

\* the element C9 gives for replica m, vertex k, component l of descriptor d
Expected(I, d, m, k, l) ==
  IF d.name \in DOMAIN I.modifiers
  THEN Modify(I.modifiers[d.name], GeneratorOutput(d, m, I.multiplier), k, l)
  ELSE IF d.name = "aPosition" THEN Coord(I.geometry.vertices.val[k + 1], l)
  ELSE IF d.name = "aNormal" THEN Coord(I.geometry.normal.val[k + 1], l)
  ELSE At(GeneratorOutput(d, m, I.multiplier).val, l)

\* buf holds the expected element at every index m*N*S + k*S + l
Laid(buf, I, d) ==
  LET N == Len(I.geometry.vertices.val)
      S == d.size
  IN \A m \in 0..(I.multiplier - 1), k \in 0..(N - 1), l \in 0..(S - 1) :
       /\ (m * N * S + k * S + l) \in DOMAIN buf
       /\ buf[m * N * S + k * S + l] = Expected(I, d, m, k, l)

\* C8: prepareAttribute(X) on an instance that has an attribute named X leaves
\* every other attribute of that instance as it was (its descriptor, its buffer
\* handle, location and size), leaves every buffer that existed before the call
\* with its contents, and leaves every other instance as it was.
C8_OnlyNamedAttribute ==
  call.op = "prepareAttribute" =>
    LET was == call.before[call.id]
        now == inst[call.id]
        x == IndexOf(was.attributeKeys, call.attribute.name) + 1
    IN /\ Len(inst) = Len(call.before)
       /\ \A n \in 1..Len(inst) : n # call.id => inst[n] = call.before[n]
       /\ Len(now.buffers) = Len(was.buffers)
       /\ Len(now.attributes) = Len(was.attributes)
       /\ now.attributeKeys = was.attributeKeys
       /\ \A i \in 1..Len(was.buffers) : i # x => now.buffers[i] = was.buffers[i]
       /\ \A i \in 1..Len(was.attributes) : i # x => now.attributes[i] = was.attributes[i]
       /\ \A b \in 1..Len(call.buffers) : glBuffers[b] = call.buffers[b]
       /\ now.buffers[x].buffer \notin 1..Len(call.buffers)

\* the second attribute of one of two instances was recompiled to new contents
C8_Witness ==
  /\ call.op = "prepareAttribute"
  /\ Len(inst) = 2
  /\ Len(inst[call.id].attributes) >= 2
  /\ call.attribute.name = inst[call.id].attributeKeys[2]
  /\ Uploaded(inst[call.id], 2) # Uploaded(call.before[call.id], 2)

\* C9: the buffer compiled for a descriptor, by the constructor and by a later
\* prepareAttribute call, holds at index m*N*S + k*S + l the modifier's result on
\* the generator's output if a modifier is registered under the descriptor's name,
\* else coordinate l of vertex k (aPosition) or of normal k (aNormal), else
\* component l of the generator's output.
C9_BufferContents ==
  /\ call.op = "prepareAttribute" =>
       Laid(glBuffers[Len(glBuffers)].data.arr, inst[call.id], call.attribute)
  /\ call.op = "add" =>
       \A i \in 1..Len(inst[call.id].attributes) :
         Laid(Uploaded(inst[call.id], i), inst[call.id], Compiled(i))

\* the geometry (0,0,0), (1,0,0) compiled twice into an unmodified aPosition
C9_Witness ==
  /\ call.op = "add"
  /\ inst[call.id].multiplier = 2
  /\ inst[call.id].geometry.vertices.val = <<Vertex(0), Vertex(1)>>
  /\ "aPosition" \notin DOMAIN inst[call.id].modifiers
  /\ LET i == IndexOf(inst[call.id].attributeKeys, "aPosition") + 1
         example == <<0, 0, 0, 1, 0, 0, 0, 0, 0, 1, 0, 0>>
     IN Uploaded(inst[call.id], i) = [n \in 0..11 |-> example[n + 1]]

\* the number of elements of a Float32Array
Length(buf) == Cardinality(DOMAIN buf)

\* C10: the buffer compiled for a descriptor of size S on an instance of
\* multiplier M and N vertices has exactly M*N*S elements, at construction and
\* after a later prepareAttribute call.
C10_BufferLength ==
  /\ call.op = "prepareAttribute" =>
       /\ DOMAIN glBuffers[Len(glBuffers)].data.arr =
            0..(inst[call.id].multiplier * Len(inst[call.id].geometry.vertices.val)
                  * call.attribute.size - 1)
       /\ Length(glBuffers[Len(glBuffers)].data.arr) =
            inst[call.id].multiplier * Len(inst[call.id].geometry.vertices.val)
              * call.attribute.size
  /\ call.op = "add" =>
       \A i \in 1..Len(inst[call.id].attributes) :
         Length(Uploaded(inst[call.id], i)) =
           inst[call.id].multiplier * Len(inst[call.id].geometry.vertices.val)
             * Compiled(i).size

\* a size-4 descriptor recompiled on an instance of 2 replicas of 2 vertices
C10_Witness ==
  /\ call.op = "prepareAttribute"
  /\ call.attribute.size = 4
  /\ inst[call.id].multiplier = 2
  /\ Len(inst[call.id].geometry.vertices.val) = 2
  /\ Length(glBuffers[Len(glBuffers)].data.arr) = 16

\* C11: compiling an attribute on an instance of multiplier M invokes the
\* attribute's generator M times, with the arguments (0, M), (1, M), ..., (M-1, M)
\* in this order, whatever the number of vertices and the size; a descriptor
\* without a generator invokes nothing.
C11_GeneratorCalls ==
  call.op = "prepareAttribute" =>
    LET M == inst[call.id].multiplier
    IN IF call.attribute.data.kind = "fn"
       THEN call.calls = [m \in 1..M |-> <<m - 1, M>>]
       ELSE call.calls = <<>>

\* two replicas of two vertices and several components: two invocations
C11_Witness ==
  /\ call.op = "prepareAttribute"
  /\ call.attribute.data.kind = "fn" /\ call.attribute.size >= 2
  /\ inst[call.id].multiplier = 2
  /\ Len(inst[call.id].geometry.vertices.val) = 2
  /\ call.calls = <<<<0, 2>>, <<1, 2>>>>

-----------------------------------------------------------------------------
(* Release of the handles *)

\* the buffers instance id has created, and those of them not yet deleted
Created(id) == {b \in 1..Len(glBuffers) : glBuffers[b].owner = id}

LiveBuffers(id) == {b \in Created(id) : glBuffers[b].deleted = 0}

\* C12 as stated: Renderer.destroy() does not fail, and when it returns the
\* registry is empty and the run state is Stopped.
C12_Original ==
  /\ ~(call.op = "throw" /\ call.from = "destroy")
  /\ call.op = "destroy" => (instances = <<>> /\ ~shouldRender)

\* C13 as stated: Instance.destroy() never fails, on a destroyed instance too,
\* and no buffer and no program is released twice.
C13_Original ==
  /\ ~(call.op = "throw" /\ call.from = "instanceDestroy")
  /\ \A id \in 1..Len(inst) : glPrograms[id] <= 1
  /\ \A b \in 1..Len(glBuffers) : glBuffers[b].deleted <= 1

\* the program and every buffer of instance id have been released n times
Released(id, n, programs, buffers) ==
  /\ programs[id] = n
  /\ \A b \in Created(id) : buffers[b].deleted = n

\* C14: under the add, remove and destroy calls of the renderer, no program
\* and no buffer is released twice, and when Renderer.destroy() returns, the
\* program and every buffer of each instance that was registered when it was
\* called have been released exactly once.
C14_ReleasedOnce ==
  /\ [](\A id \in 1..Len(inst) :
          Released(id, 0, glPrograms, glBuffers) \/ Released(id, 1, glPrograms, glBuffers))
  /\ [][call'.op = "destroy" =>
          \A i \in 1..Len(instances) : Released(instances[i].id, 1, glPrograms', glBuffers')]_vars

\* destroy() has released the two instances of the registry
C14_Witness ==
  /\ call.op = "destroy"
  /\ Len(inst) = 2
  /\ \A id \in 1..2 : Created(id) # {} /\ Released(id, 1, glPrograms, glBuffers)

\* C15 as stated: a destroyed instance has deleted every buffer it ever
\* created, and a live instance owns as many live buffers as it has attributes.
C15_Original ==
  \A id \in 1..Len(inst) :
    IF inst[id].gl
    THEN Cardinality(LiveBuffers(id)) = Len(inst[id].attributes)
    ELSE LiveBuffers(id) = {}

-----------------------------------------------------------------------------
(* Registry *)

\* the instances the registry holds
Registered == {instances[i].id : i \in 1..Len(instances)}

\* the instance registered under key
IdOf(key) == instances[IndexOf(RegKeys, key) + 1].id

\* C16: add under a key that is registered puts the new instance in the place
\* of the previous one: the registry keeps its size and its keys, the previous
\* instance is not destroyed. An instance that has lost its place this way is
\* never destroyed later, and remove(key) destroys the instance registered under
\* key at that time and leaves the key absent.
C16_DuplicateKey ==
  /\ [][(call'.op = "add" /\ call'.key \in {RegKeys[i] : i \in 1..Len(RegKeys)}) =>
          LET old == IdOf(call'.key)
          IN /\ Len(instances') = Len(instances)
             /\ [i \in 1..Len(instances') |-> instances'[i].key] = RegKeys
             /\ call'.id \notin 1..Len(inst)
             /\ instances'[IndexOf(RegKeys, call'.key) + 1].id = call'.id
             /\ \A i \in 1..Len(instances) :
                  instances[i].key # call'.key => instances'[i] = instances[i]
             /\ inst'[old] = inst[old] /\ inst'[old].gl
             /\ Released(old, 0, glPrograms', glBuffers')]_vars
  /\ [][\A id \in 1..Len(inst) :
          (id \notin Registered /\ inst[id].gl) =>
            /\ inst'[id] = inst[id]
            /\ id \notin {instances'[i].id : i \in 1..Len(instances')}
            /\ Released(id, 0, glPrograms', glBuffers')]_vars
  /\ [][(call'.op = "remove" /\ call'.found) =>
          /\ \A i \in 1..Len(instances') : instances'[i].key # call'.key
          /\ ~inst'[IdOf(call'.key)].gl
          /\ Released(IdOf(call'.key), 1, glPrograms', glBuffers')]_vars

\* add("a"), add("a"), remove("a") have run: the registry is empty, the second
\* instance is destroyed, the first is not
C16_Witness ==
  /\ call.op = "remove" /\ call.found /\ call.key = "a"
  /\ instances = <<>> /\ Len(inst) = 2
  /\ inst[1].gl /\ Released(1, 0, glPrograms, glBuffers)
  /\ ~inst[2].gl /\ Released(2, 1, glPrograms, glBuffers)

\* the buffers instance id holds now have been deleted n times
Deleted1(id, n, buffers) ==
  \A i \in 1..Len(inst[id].buffers) : buffers[inst[id].buffers[i].buffer].deleted = n

\* remove(key) was called by this step with key in the registry
RemovesPresent ==
  /\ call'.op = "remove" \/ (call'.op = "throw" /\ call'.from = "remove")
  /\ call'.key \in {RegKeys[i] : i \in 1..Len(RegKeys)}

\* C17 as stated: remove(key) for a registered key returns, having removed the
\* key, released the program and the buffers of the instance registered under
\* it, and changed no other registry entry, no other instance and not the run
\* state.
C17_Original ==
  [][RemovesPresent =>
       LET id == IdOf(call'.key)
       IN /\ call'.op = "remove"
          /\ instances' = RemoveAt(instances, IndexOf(RegKeys, call'.key) + 1)
          /\ ~inst'[id].gl
          /\ glPrograms'[id] = glPrograms[id] + 1
          /\ Deleted1(id, 1, glBuffers')
          /\ \A n \in 1..Len(inst) : n # id =>
               /\ inst'[n] = inst[n]
               /\ glPrograms'[n] = glPrograms[n]
               /\ \A i \in 1..Len(inst[n].buffers) :
                    glBuffers'[inst[n].buffers[i].buffer] = glBuffers[inst[n].buffers[i].buffer]
          /\ shouldRender' = shouldRender]_vars

\* C18: remove(key) for a key the registry lacks raises nothing and changes
\* nothing: not the registry, the instances, their buffers and programs, the
\* shared uniforms, the run state, the scheduled frames or the frames in flight.
C18_RemoveAbsent ==
  /\ [][(call'.op = "remove" /\ ~call'.found) =>
          /\ call'.key \notin {RegKeys[i] : i \in 1..Len(RegKeys)}
          /\ UNCHANGED <<started, shouldRender, onRender, raf, uniforms, heap, instances,
                         inst, glBuffers, glPrograms, stack>>]_vars
  /\ [][(call'.op = "throw" /\ call'.from = "remove") =>
          call'.key \in {RegKeys[i] : i \in 1..Len(RegKeys)}]_vars

\* remove("a") called from a hook of a running loop whose registry holds only b
C18_Witness ==
  /\ call.op = "remove" /\ ~call.found /\ call.key = "a"
  /\ RegKeys = <<"b">>
  /\ InHook /\ shouldRender

\* add(key, settings) was called by this step with key absent from the registry
AddsNew ==
  /\ call'.op = "add" \/ (call'.op = "throw" /\ call'.from = "add")
  /\ call'.key \notin {RegKeys[i] : i \in 1..Len(RegKeys)}

\* one new instance is appended to the registry under the key, all else is kept
Registers ==
  /\ Len(inst') = Len(inst) + 1
  /\ call'.id = Len(inst')
  /\ inst'[call'.id].gl
  /\ \A n \in 1..Len(inst) : inst'[n] = inst[n]
  /\ glPrograms' = Append(glPrograms, 0)
  /\ instances' = Append(instances, [key |-> call'.key, id |-> call'.id])

\* a non-reserved attribute with no generator and no modifier: data[l] throws
Uncompilable(settings) ==
  \E i \in 1..Len(settings.attributes) :
    /\ settings.attributes[i].data.kind = "undef"
    /\ settings.attributes[i].name \notin DOMAIN settings.modifiers \cup {"aPosition", "aNormal"}

\* C19 as stated: add(key, settings) for a key the registry lacks and any
\* settings returns a new instance registered under key.
C19_Original == [][AddsNew => (call'.op = "add" /\ Registers)]_vars

\* C19: add(key, settings) for a key the registry lacks, with settings omitted
\* or with attributes that compile, constructs one new instance, appends it to
\* the registry under key and returns it; the instances and the registry entries
\* there were are unchanged. With an attribute that does not compile, add throws
\* and registers nothing.
C19_AddRegisters ==
  [][AddsNew =>
       IF Uncompilable(call'.settings)
       THEN call'.op = "throw" /\ instances' = instances /\ inst' = inst
       ELSE call'.op = "add" /\ Registers]_vars

\* add("b") with the settings omitted, in a registry that held a
C19_Witness ==
  /\ call.op = "add" /\ call.key = "b" /\ call.settings = Omitted
  /\ RegKeys = <<"a", "b">>
  /\ instances[2].id = call.id /\ inst[call.id].gl

-----------------------------------------------------------------------------
(* Uniforms of a new instance *)

\* the new instance holds the shared keys and the settings' own keys: under a
\* shared key the renderer's type and the value copy(renderer's value) in storage
\* of its own, under another key what the settings gave
Snapshot(copy(_)) ==
  LET own == inst[call.id].uniforms
      given == call.settings.uniforms
  IN /\ DOMAIN own = UKeys(uniforms) \cup DOMAIN given
     /\ \A key \in UKeys(uniforms) :
          /\ own[key].type = UGet(uniforms, key).type
          /\ own[key].value.k = UGet(uniforms, key).value.k
          /\ Content(own[key]) = copy(Content(UGet(uniforms, key)))
          /\ ~Aliased(call.id, key)
     /\ \A key \in DOMAIN given \ UKeys(uniforms) :
          /\ own[key].type = given[key].type
          /\ own[key].value = given[key].value

Same(n) == n

\* C20 as stated: when add returns, the new instance holds under every shared
\* key an entry of the renderer's type with an equal value in a copy of its own,
\* and keeps the settings' uniforms under the other keys.
C20_Original == call.op = "add" => Snapshot(Same)

\* C20: when add returns, the new instance's dictionary holds the keys of the
\* renderer's shared uniforms and the keys of the settings' own uniforms; under
\* every shared key an entry of the renderer's type whose value is the JSON round
\* trip of the renderer's (equal for the numbers JSON can write, null for NaN)
\* and, for an array, is another array than the renderer's; under every other
\* key the type and value the settings gave. The renderer's dictionary and its
\* arrays are as they were before the call.
C20_Snapshot ==
  /\ [](call.op = "add" => Snapshot(Json))
  /\ [][call'.op = "add" =>
          /\ uniforms' = uniforms
          /\ \A r \in DOMAIN heap : r \in DOMAIN heap' /\ heap'[r] = heap[r]]_vars

\* an instance added after the application has seeded uProgress and changed
\* the model matrix in place: both are copied, the instance's own uPrivate is kept
C20_Witness ==
  /\ call.op = "add"
  /\ "uProgress" \in UKeys(uniforms)
  /\ Content(UGet(uniforms, "uModelMatrix")) = 0
  /\ Content(inst[call.id].uniforms["uModelMatrix"]) = 0
  /\ inst[call.id].uniforms["uProgress"].value = UGet(uniforms, "uProgress").value
  /\ inst[call.id].uniforms["uPrivate"].value = Private.value

-----------------------------------------------------------------------------
(* Run state and the scheduler *)

\* the frames in flight as the program has them, without the record of the stops
Activations(st) == [i \in 1..Len(st) |-> [st[i] EXCEPT !.stopped = 0]]

\* this step is toggle(v) with v given and equal to the run state
TogglesSame ==
  /\ call'.op = "toggle"
  /\ call'.arg # "undefined"
  /\ (call'.arg = "true") = shouldRender

\* C21: toggle(v) with v given and equal to the run state changes nothing: the
\* run state, the scheduled frames and the frames in flight are the same (no
\* frame is entered by the call), and so are the registry, the instances and
\* the shared uniforms. So a second toggle(false) leaves the renderer as the
\* first one left it.
C21_SameStateNoop ==
  [][TogglesSame =>
       /\ UNCHANGED <<started, shouldRender, onRender, raf, uniforms, heap, instances,
                      inst, glBuffers, glPrograms>>
       /\ Activations(stack') = Activations(stack)]_vars

\* toggle(false) on a stopped renderer whose last requested frame has not fired yet
C21_Witness ==
  /\ call.op = "toggle" /\ call.arg = "false" /\ ~call.was
  /\ ~shouldRender /\ raf = 1 /\ Idle
  /\ Len(instances) = 1

\* C22 as stated: once toggle(false) has returned between frames, no step that
\* leaves the run state Stopped enters a frame or requests one.
C22_Original ==
  [][(call.op = "toggle" /\ call.arg = "false" /\ call.frames = <<>> /\ ~shouldRender
        /\ ~shouldRender') =>
       (stack' = <<>> /\ raf' <= raf)]_vars

\* what holds of a Stopped renderer: no step that leaves it Stopped requests a
\* frame, and the only such step that enters a frame is a callback requested
\* earlier, which the scheduler still runs
StoppedLoop ==
  /\ [][~shouldRender' => raf' <= raf]_vars
  /\ [][(started /\ ~shouldRender /\ ~shouldRender' /\ Len(stack') > Len(stack)) =>
          (call'.op = "tick" /\ raf' = raf - 1)]_vars

\* a frame run by a callback, over one instance at least, with the run state
\* Stopped from its first step to its last
TrailingFrame ==
  /\ call.op = "end" /\ call.frame.origin = "raf"
  /\ call.frame.stopped = 0 /\ ~call.running /\ call.scheduled = 0
  /\ Len(Renders(call.frame)) >= 1

-----------------------------------------------------------------------------
(* The calls of Instance.render *)

\* the positions of the calls named op among the calls of the last render
At1(op) == {i \in 1..Len(call.calls) : call.calls[i].op = op}

\* one draw call, of the instance's mode over multiplier * vertexCount elements,
\* after one upload of every uniform of the instance with its merged value, and
\* after it one invocation of the hook, if there is one, on the instance itself
DrawsOnce ==
  LET I == inst[call.id]
      c == call.calls
  IN /\ Cardinality(At1("drawArrays")) = 1
     /\ \A d \in At1("drawArrays") :
          /\ c[d] = [op |-> "drawArrays", mode |-> I.mode, first |-> 0,
                     count |-> I.multiplier * Len(I.geometry.vertices.val)]
          /\ \A key \in DOMAIN I.uniforms :
               /\ Cardinality({i \in At1("uniform") : c[i].key = key}) = 1
               /\ \A i \in At1("uniform") :
                    c[i].key = key => (i < d /\ c[i].value = I.uniforms[key].value)
          /\ \A key \in call.shared :
               \A i \in At1("uniform") :
                 c[i].key = key => c[i].value = UGet(uniforms, key).value
          /\ \A h \in At1("onRender") : h > d /\ c[h].arg = call.id
     /\ Cardinality(At1("onRender")) = (IF I.onRender THEN 1 ELSE 0)
     /\ I.onRender => (InHook /\ Top.pc = "ihook")

\* C23 as stated: every Instance.render call issues exactly one draw call, of
\* the instance's mode over multiplier * vertexCount elements, after the merge
\* and the upload of every uniform, and then invokes the hook of the instance,
\* if there is one, once and on the instance itself.
C23_Original == Rendered => DrawsOnce

\* every Instance.render call that returns has done so
DrawsOnceOnReturn == call.op = "render" => DrawsOnce

\* an instance of two replicas of two vertices drawn as triangles, its hook invoked
DrawnWithHook ==
  /\ call.op = "render"
  /\ inst[call.id].mode = 4 /\ inst[call.id].onRender
  /\ \E d \in At1("drawArrays") : call.calls[d].count = 4
  /\ "uProgress" \in call.shared

-----------------------------------------------------------------------------
(* Shaders the driver rejects *)

\* the driver reports a compile failure or a link failure for these settings
Rejected(settings) == ~prepareProgram(settings.vertex, settings.fragment)

\* C24 as stated: add(key, settings) with shaders the driver rejects fails at
\* the call, registers nothing under key, and leaves the run state, the registry
\* and every instance as they were.
C24_Original ==
  [][((call'.op = "add" \/ (call'.op = "throw" /\ call'.from = "add"))
        /\ Rejected(call'.settings)) =>
       /\ call'.op = "throw"
       /\ instances' = instances
       /\ inst' = inst
       /\ shouldRender' = shouldRender]_vars

\* what add does with rejected shaders: it returns a new instance, registered
\* under key, whose program is not linked; the run state and the other instances
\* are as they were
RegistersUnlinked ==
  [][(call'.op = "add" /\ Rejected(call'.settings)) =>
       /\ ~inst'[call'.id].linked
       /\ \E i \in 1..Len(instances') : instances'[i] = [key |-> call'.key, id |-> call'.id]
       /\ \A n \in 1..Len(inst) : inst'[n] = inst[n]
       /\ shouldRender' = shouldRender]_vars

\* an instance with an unlinked program has been rendered by a frame
UnlinkedRendered == call.op = "render" /\ ~inst[call.id].linked

-----------------------------------------------------------------------------
(* The initial run state *)

\* the constructor's frame has ended, no hook of it having called toggle or
\* destroy: the run state is the configured one
Constructed(running) ==
  /\ call.op = "end" /\ call.frame.origin = "ctor"
  /\ call.running = running /\ hist = <<>>

\* a renderer constructed Running has, when the constructor returns, executed
\* one frame and scheduled one
StartsRunning ==
  Constructed(TRUE) =>
    /\ shouldRender
    /\ Complete(call.frame)
    /\ call.scheduled = 1 /\ raf = 1

\* the constructor of a renderer configured Stopped enters no frame
StartsStopped == [][(~started /\ started' /\ ~shouldRender) => stack' = <<>>]_vars

\* C25 as stated: a renderer constructed Running has executed one frame and
\* scheduled one when the constructor returns; a renderer constructed Stopped
\* executes no frame and schedules none until a toggle makes it Running.
C25_Original == []StartsRunning /\ StartsStopped

\* what the constructor of a renderer configured Stopped does: it executes one
\* whole frame, which schedules nothing unless a hook made the state Running
StoppedStillRenders ==
  /\ [][(~started /\ started') => stack' = <<Frame("ctor")>>]_vars
  /\ [](call.op = "end" /\ call.frame.origin = "ctor" =>
          /\ Complete(call.frame)
          /\ call.scheduled = (IF call.running THEN 1 ELSE 0))

\* the constructor of a renderer configured Stopped has run the global hook
StoppedHookRan ==
  /\ Constructed(FALSE)
  /\ call.frame.log = <<"clear", "hook">> /\ raf = 0

-----------------------------------------------------------------------------
(* The loops alive *)

\* C26 as stated: the requestAnimationFrame callbacks not yet run never exceed
\* one, under any toggle calls between frames and from hooks.
C26_Original == raf <= 1

\* two callbacks are pending between frames on a Running renderer: from now on
\* every frame that ends replaces the callback that started it, so both stay
DoubledLoop == shouldRender /\ Idle /\ raf = 2

\* a frame started by a callback of a Running renderer requests one callback:
\* the count of pending callbacks is restored, never brought back to one
LoopsPersist ==
  (call.op = "end" /\ call.frame.origin = "raf" /\ call.running) => call.scheduled = 1

\* the last run-state call was made on a Running renderer and stopped it
StoppedLast ==
  /\ hist # <<>>
  /\ hist[Len(hist)].was /\ hist[Len(hist)].arg # "true"

\* C27 as stated, the count of the frames: once a call has stopped a Running
\* renderer and no call has followed it, the frame a callback enters is the only
\* further frame, so no other callback is pending when it starts.
C27_Original == (call.op = "tick" /\ StoppedLast) => raf = 0

\* the rest of C27: if the run state stays Stopped from some point on, then from
\* some point on no callback is pending and no frame is in flight
Drains == <>[](~shouldRender) => <>[](raf = 0 /\ Idle)

\* a Stopped renderer between frames with nothing pending: the loop has ended
Drained ==
  /\ StoppedLast /\ ~shouldRender /\ Idle /\ raf = 0
  /\ call.op = "end" /\ call.frame.origin = "raf"

\* C28 as stated: whenever the renderer is Running and no frame is executing,
\* a callback is pending.
C28_Original == (started /\ shouldRender /\ Idle) => raf >= 1

\* a constructed renderer that stays Running executes frames again and again
KeepsRendering == []<>(~started \/ ~shouldRender \/ ~Idle)

\* a frame of a loop that has come around: entered by a callback, Running at
\* its end, its successor requested
LoopRound ==
  /\ call.op = "end" /\ call.frame.origin = "raf"
  /\ call.running /\ call.scheduled = 1 /\ raf = 1

-----------------------------------------------------------------------------
(* Destroyed instances and the frame loop *)

\* this step is a call of Instance.render by the frame loop
Renders1 == call'.op = "render" \/ (call'.op = "throw" /\ call'.from = "render")

\* C29: under add, remove, destroy and toggle calls of the renderer, made
\* between frames and from the hooks of a frame that iterates the registry,
\* every instance in the registry is live (its gl is not null), and every
\* instance the frame loop calls render on is registered and live at the call.
C29_NoDestroyedRendered ==
  /\ [](\A i \in 1..Len(instances) : inst[instances[i].id].gl)
  /\ [][Renders1 => (call'.id \in Registered /\ inst[call'.id].gl)]_vars

\* the hook of instance a removed a while the frame was iterating <<a, b>>;
\* the frame went on and rendered b
C29_Witness ==
  /\ call.op = "render" /\ call.id = 2
  /\ Top.log = <<"clear", "a", "b">> /\ Top.mutated
  /\ ~inst[1].gl /\ RegKeys = <<"b">>

-----------------------------------------------------------------------------
(* The buffer list of an instance *)

Distinct(s) == \A i, j \in 1..Len(s) : i # j => s[i] # s[j]

\* entry i of the buffer list of I is the buffer of attribute i: it has the
\* location of its name and its size, and its WebGL buffer holds its data
BelongsTo(I, i) ==
  /\ I.buffers[i] # Hole
  /\ I.buffers[i].location = GetAttribLocation(I.attributes[i].name)
  /\ I.buffers[i].size = I.attributes[i].size
  /\ I.buffers[i].buffer \in 1..Len(glBuffers)
  /\ glBuffers[I.buffers[i].buffer].data = I.attributes[i].data
  /\ glBuffers[I.buffers[i].buffer].owner = I.program

\* C30: an instance whose attribute names, the injected aPosition and aNormal
\* included, are pairwise distinct has, after its construction and after any
\* prepareAttribute calls on names it has, a buffer list with exactly one entry
\* per attribute, the entry at index i being the buffer of attribute i.
C30_OneBufferPerAttribute ==
  \A id \in 1..Len(inst) :
    Distinct([i \in 1..Len(inst[id].attributes) |-> inst[id].attributes[i].name]) =>
      /\ Len(inst[id].buffers) = Len(inst[id].attributes)
      /\ \A i \in 1..Len(inst[id].attributes) : BelongsTo(inst[id], i)
      /\ Distinct([i \in 1..Len(inst[id].buffers) |-> inst[id].buffers[i].buffer])

\* the second of three attributes has been recompiled: its entry holds the
\* newest buffer, the list still has three entries
C30_Witness ==
  /\ call.op = "prepareAttribute"
  /\ Len(inst[call.id].attributes) = 3
  /\ call.attribute.name = inst[call.id].attributes[2].name
  /\ Len(inst[call.id].buffers) = 3
  /\ inst[call.id].buffers[2].buffer = Len(glBuffers)
  /\ inst[call.id].buffers[2] # call.before[call.id].buffers[2]

-----------------------------------------------------------------------------
(* The size recorded with a buffer *)

\* the elements the layout recorded with entry i of the buffers of I describes
Described(I, i) == I.multiplier * Len(I.geometry.vertices.val) * I.buffers[i].size

\* C31 as stated: for every buffer of a live instance, the data uploaded to it
\* has multiplier * vertexCount * recorded size elements, after any
\* prepareAttribute calls, of descriptors of another size included.
C31_Original ==
  \A id \in 1..Len(inst) :
    inst[id].gl =>
      \A i \in 1..Len(inst[id].buffers) :
        Length(Uploaded(inst[id], i)) = Described(inst[id], i)

\* what prepareAttribute records: the size the attribute had when the instance
\* was constructed, whatever the size of the descriptor it compiled
KeepsFirstSize ==
  [][call'.op = "prepareAttribute" =>
       LET x == IndexOf(inst[call'.id].attributeKeys, call'.attribute.name) + 1
       IN /\ inst'[call'.id].buffers[x].size = inst[call'.id].buffers[x].size
          /\ inst'[call'.id].attributes[x].size = inst[call'.id].attributes[x].size
          /\ Length(glBuffers'[inst'[call'.id].buffers[x].buffer].data.arr) =
               inst[call'.id].multiplier * Len(inst[call'.id].geometry.vertices.val)
                 * call'.attribute.size]_vars

\* aPosition recompiled from a descriptor of size 1: the buffer holds one
\* element per vertex and is described as three components per vertex
SizeMismatch ==
  /\ call.op = "prepareAttribute"
  /\ call.attribute.name = "aPosition" /\ call.attribute.size = 1
  /\ \E i \in 1..Len(inst[call.id].buffers) :
       /\ inst[call.id].attributeKeys[i] = "aPosition"
       /\ inst[call.id].buffers[i].size = 3
       /\ Length(Uploaded(inst[call.id], i)) =
            inst[call.id].multiplier * Len(inst[call.id].geometry.vertices.val)

-----------------------------------------------------------------------------
(* The caller's configuration *)

\* add(key, cfg) was called by this step with the cfg instance call'.of was
\* constructed from
AddsAgain == call'.op = "addAgain" \/ (call'.op = "throw" /\ call'.from = "addAgain")

\* C32 as stated: after add(k1, cfg) the attribute list of cfg has the entries
\* it had, each with its generator, and add(k2, cfg) returns an instance whose
\* attribute list and compiled buffers equal those of the first instance.
C32_Original ==
  /\ [](call.op = "add" => Config(inst[call.id]).attributes = call.settings.attributes)
  /\ [][AddsAgain =>
          /\ call'.op = "addAgain"
          /\ inst'[call'.id].attributes = inst[call'.of].attributes
          /\ \A i \in 1..Len(inst[call'.of].buffers) :
               glBuffers'[inst'[call'.id].buffers[i].buffer].data =
                 glBuffers[inst[call'.of].buffers[i].buffer].data]_vars

\* what the constructor does to cfg: every descriptor of cfg holds the compiled
\* array in place of its generator, and the descriptors the constructor injects
\* are appended to cfg's list
Consumes ==
  call.op = "add" =>
    LET given == call.settings.attributes
        now == Config(inst[call.id]).attributes
    IN /\ Len(now) > Len(given)
       /\ \A i \in 1..Len(given) :
            /\ now[i].name = given[i].name /\ now[i].size = given[i].size
            /\ now[i].data.kind = "arr"
       /\ \A i \in (Len(given) + 1)..Len(now) : now[i].name \in {"aPosition", "aNormal"}

\* so a second add with cfg throws at its first descriptor, whose data is no
\* function any more, after the constructor has appended to cfg's list again;
\* nothing is registered
SecondAddThrows ==
  [][AddsAgain =>
       /\ call'.op = "throw"
       /\ instances' = instances
       /\ Len(inst') = Len(inst)
       /\ Len(inst'[call'.of].attributes) > Len(inst[call'.of].attributes)]_vars

\* the second add with the configuration of an instance of two attributes has
\* thrown, leaving three entries in the list the first instance holds
ConfigConsumed ==
  /\ call.op = "throw" /\ call.from = "addAgain"
  /\ Len(call.settings.attributes) = 2
  /\ call.settings.attributes[1].data.kind = "arr"
  /\ Len(inst) = 1 /\ Len(inst[1].attributes) = 3
  /\ RegKeys = <<"a">>

====
